---------------------------- MODULE Spec2Model ----------------------------
(***************************************************************************)
(* A model of train_ggcnn.py: the validation loop (validate), the training *)
(* loop (train) and the epoch / checkpoint loop (run), together with the   *)
(* collaborators they call (focal_loss, post_process_output, evaluation,   *)
(* Saver), which are modelled from the design document.                    *)
(*                                                                         *)
(* Three specifications share the variables:                               *)
(*   Spec      - run(): scheduler warm-up, epochs, checkpointing           *)
(*   SpecLoops - one call of validate() or of train(), batch by batch      *)
(*   SpecEval  - one call of the grasp evaluator on candidates/rectangles  *)
(***************************************************************************)
EXTENDS Integers, Sequences, FiniteSets, TLC

VARIABLES
    \* ---- run() ----
    args,        \* parsed command line: goon_train, start_epoch, epochs, max_models
    pc,          \* position in run()
    warm,        \* loop counter of `for _ in range(start_epoch)`
    epoch,       \* loop variable of the epoch loop
    sched,       \* number of scheduler.step() calls so far
    best_acc,    \* best test accuracy so far
    accuracy,    \* test_results['accuracy'] of the current epoch
    models,      \* model files on disk, oldest first
    executed,    \* history: epochs whose body was entered, in order
    accs,        \* history: test accuracy of every finished epoch
    best_before, \* history: best_acc when the last checkpoint step began
    calls,       \* history: Saver calls made by the last checkpoint step
    \* ---- validate() / train() ----
    lpc,         \* "validate", "train", "returned", "raised" ("idle" outside SpecLoops)
    ld,          \* len(val_data) / len(train_data)
    batch_idx,   \* batches consumed so far
    results,     \* the results dictionary being accumulated
    fwd,         \* number of network forward passes executed so far
    used,        \* history: the forward pass whose output the last batch decoded / evaluated
    seen,        \* history: what the last validated image looked like and what it returned
    successes,   \* history: number of images whose evaluation returned success
    \* ---- evaluator ----
    epc,         \* "ready", "done" ("idle" outside SpecEval)
    cands,       \* candidate list handed to the evaluator
    rects,       \* ground-truth rectangles of the image
    ret          \* value returned by the evaluator

runVars  == <<args, pc, warm, epoch, sched, best_acc, accuracy, models,
              executed, accs, best_before, calls>>
loopVars == <<lpc, ld, batch_idx, results, fwd, used, seen, successes>>
evalVars == <<epc, cands, rects, ret>>
vars     == <<runVars, loopVars, evalVars>>

-----------------------------------------------------------------------------
(* Bounds of the model *)

MaxLd      == 9     \* longest loader (validation images / training batches)
MaxEpochs  == 3     \* largest --epochs
MaxModels  == 2     \* largest --max_models
MaxAcc     == 2     \* accuracy levels a validation run can return in run()
MaxCands   == 2     \* longest candidate list in SpecEval
MaxRects   == 2     \* most ground-truth rectangles per image
AngleSteps == 3     \* angle grid: a quarter turn (pi/2) is AngleSteps units
MaxConf    == 3     \* confidence levels of a position map are 0..MaxConf

-----------------------------------------------------------------------------
(* Python floats (IEEE binary64), for results['accuracy'] += ret / ld.     *)
(* A value v in [0, 16) is the triple <<h, m, l>> of LimbBits-bit limbs    *)
(* with v * 2^FracBits = h * Base^2 + m * Base + l.  Every binary64 value  *)
(* in [2^-9, 16) is such a triple; RoundBits rounds to MantBits            *)
(* significant bits, ties to even.                                         *)

MantBits == 53
LimbBits == 22
FracBits == 62
Base     == 2 ^ LimbBits

FlZero == <<0, 0, 0>>
FlOne  == <<2 ^ (FracBits - 2 * LimbBits), 0, 0>>

BitLen(v) == IF v = 0 THEN 0
             ELSE CHOOSE n \in 1..LimbBits : 2 ^ (n - 1) <= v /\ v < 2 ^ n

Lead(x) == IF x[1] > 0 THEN 2 * LimbBits + BitLen(x[1])
           ELSE IF x[2] > 0 THEN LimbBits + BitLen(x[2])
           ELSE BitLen(x[3])

Carry(x) ==
    LET m == x[2] + x[3] \div Base
    IN  <<x[1] + m \div Base, m % Base, x[3] % Base>>

RoundBits(x, sticky) ==
    LET q == Lead(x) - MantBits
    IN  IF q <= 0 THEN x
        ELSE LET d    == 2 ^ q
                 rem  == x[3] % d
                 kept == x[3] - rem
                 up   == \/ 2 * rem > d
                         \/ 2 * rem = d /\ (sticky \/ (kept \div d) % 2 = 1)
             IN  Carry(<<x[1], x[2], IF up THEN kept + d ELSE kept>>)

\* a + b in binary64
FlAdd(a, b) == RoundBits(Carry(<<a[1] + b[1], a[2] + b[2], a[3] + b[3]>>), FALSE)

\* num / den in binary64, for integers 0 <= num, 1 <= den <= 512, num / den < 16
FlDiv(num, den) ==
    LET n1 == num * 2 ^ (FracBits - 2 * LimbBits)
        n2 == (n1 % den) * Base
        n3 == (n2 % den) * Base
    IN  RoundBits(<<n1 \div den, n2 \div den, n3 \div den>>, n3 % den # 0)

FlLeq(a, b) == \/ a[1] < b[1]
               \/ a[1] = b[1] /\ a[2] < b[2]
               \/ a[1] = b[1] /\ a[2] = b[2] /\ a[3] <= b[3]

-----------------------------------------------------------------------------
(* Angles.  Angles are integers on a grid of PI units per half turn.  The  *)
(* dataset stores a grasp angle theta as the pair (cos 2theta, sin 2theta),*)
(* a point of the full circle: here its index in 0..2*PI-1.                *)

PI == 2 * AngleSteps

Abs(x) == IF x < 0 THEN -x ELSE x
Min(a, b) == IF a <= b THEN a ELSE b

\* the target maps y[1], y[2] written by the dataset for a label angle theta
Encode(theta) == (2 * theta) % (2 * PI)

\* atan2(sin, cos) of the circle point `code`, in (-PI, PI]
Atan2(code) == IF code > PI THEN code - 2 * PI ELSE code

\* validate: ang_tar = torch.atan2(y[2], y[1]) / 2.0
ang_tar_unhalved(code) == Atan2(code)
ang_tar(code) == Atan2(code) \div 2

\* evaluator default angle_tolerance = pi / 6
angle_tolerance == PI \div 6

-----------------------------------------------------------------------------
(* The image grid and the inputs drawn by the specifications *)

Pixels == {<<1, 1>>, <<1, 2>>, <<1, 3>>}
Masks  == {{<<1, 1>>}, {<<1, 2>>, <<1, 3>>}}

\* label angles of the dataset: 0, just below a half turn, just past a half turn
Thetas == {0, PI - 1, PI + 1}

\* angles a candidate can carry, from the decoder's range (-PI/2, PI/2]
CandAngles == {1 - AngleSteps, 0, 1, AngleSteps}
CandPixels == {<<1, 1>>, <<1, 2>>}

SeqsUpTo(S, n) == UNION {[1..k -> S] : k \in 0..n}

Rectangles == [mask : Masks, theta : Thetas]
Candidates == [px : CandPixels, angle : CandAngles]

-----------------------------------------------------------------------------
(* Grasp Evaluator (design document 4.3) *)

\* absolute angular difference, computed modulo pi
AngleDiff(a, g) ==
    LET d == Abs(a - g) % PI
    IN  Min(d, PI - d)

IsMatch(c, g, tol) == c.px \in g.mask /\ AngleDiff(c.angle, g.angle) <= tol

RECURSIVE MatchesFrom(_, _, _, _)
MatchesFrom(c, gt, j, tol) ==
    IF j > Len(gt) THEN FALSE
    ELSE IF IsMatch(c, gt[j], tol) THEN TRUE
    ELSE MatchesFrom(c, gt, j + 1, tol)

RECURSIVE EvaluateFrom(_, _, _, _)
EvaluateFrom(cs, gt, i, tol) ==
    IF i > Len(cs) THEN FALSE
    ELSE IF MatchesFrom(cs[i], gt, 1, tol) THEN TRUE
    ELSE EvaluateFrom(cs, gt, i + 1, tol)

evaluate(cs, gt, tol) ==
    IF Len(gt) = 0 THEN FALSE ELSE EvaluateFrom(cs, gt, 1, tol)

\* the target maps of an image, as the dataset hands them to validate:
\* y[0] is the pixel mask, (y[1], y[2]) the encoded label angle over it
Targets(rs) == [j \in 1..Len(rs) |-> [mask |-> rs[j].mask, code |-> Encode(rs[j].theta)]]

\* validate: the ground truth handed to evaluation is (y[0], ang_tar)
GroundTruth(y) == [j \in 1..Len(y) |-> [mask |-> y[j].mask, angle |-> ang_tar(y[j].code)]]

\* validate: evaluation(pos_out, ang_out, wid_out, y[0], ang_tar, y[3]) receives
\* the decoded maps in this order
evaluation_args_swapped(out) == <<out.wid, out.ang, out.pos>>
evaluation_args(out) == <<out.pos, out.ang, out.wid>>

-----------------------------------------------------------------------------
(* Output Decoder (design document 4.1) and Candidate Extractor (4.2) *)

WidthScale     == 150   \* width denormalisation constant
MinConf        == 2     \* minimum-confidence floor of the extractor
Radius         == 1     \* non-maximum-suppression neighbourhood radius
max_candidates == 1     \* extractor default

post_process_output(pos_raw, code_raw, wid_raw) ==
    [pos |-> pos_raw,
     ang |-> [p \in Pixels |-> Atan2(code_raw[p]) \div 2],
     wid |-> [p \in Pixels |-> wid_raw[p] * WidthScale]]

Near(p, q) == Abs(p[1] - q[1]) <= Radius /\ Abs(p[2] - q[2]) <= Radius

RowMajorBefore(p, q) == p[1] < q[1] \/ (p[1] = q[1] /\ p[2] < q[2])

\* p is ranked before q: higher confidence, ties in row-major order
Before(pos, p, q) == pos[p] > pos[q] \/ (pos[p] = pos[q] /\ RowMajorBefore(p, q))

IsPeak(pos, p) ==
    /\ pos[p] >= MinConf
    /\ \A q \in Pixels \ {p} : Near(p, q) => Before(pos, p, q)

RECURSIVE TopPeaks(_, _, _)
TopPeaks(pos, S, n) ==
    IF n = 0 \/ S = {} THEN <<>>
    ELSE LET p == CHOOSE p \in S : \A q \in S \ {p} : Before(pos, p, q)
         IN  <<p>> \o TopPeaks(pos, S \ {p}, n - 1)

extract(position_map, angle_map, width_map, n) ==
    LET order == TopPeaks(position_map, {p \in Pixels : IsPeak(position_map, p)}, n)
    IN  [i \in 1..Len(order) |->
            [px         |-> order[i],
             angle      |-> angle_map[order[i]],
             width      |-> width_map[order[i]],
             confidence |-> position_map[order[i]]]]

\* utils.dataset_processing.evaluation.evaluation: candidates of the decoded
\* maps against the ground truth
evaluation(a, gt) == evaluate(extract(a[1], a[2], a[3], max_candidates), gt, angle_tolerance)

-----------------------------------------------------------------------------
(* Loss Function (design document 4.4).  The loss of a batch is a real     *)
(* number produced by the network: it is kept as a symbolic item, and a    *)
(* sum of items as the sequence of its terms in the order they were added. *)

LossNames == {"loss_pos", "loss_cos", "loss_sin", "loss_wid"}

\* the value of loss term `term` on batch number `batch`
item(term, batch) == <<term, batch>>

\* x / n for a symbolic x
over(x, n) == <<x, "/", n>>

\* one forward pass (number n + 1), whose raw output is returned as 'pred'
focal_loss(batch, n) ==
    [loss   |-> item("loss", batch),
     losses |-> [ln \in LossNames |-> item(ln, batch)],
     pred   |-> n + 1,
     fwd    |-> n + 1]

-----------------------------------------------------------------------------
(* Idle values of the variables a specification does not use *)

RunIdle ==
    /\ args = [goon_train |-> FALSE, start_epoch |-> 0, epochs |-> 0, max_models |-> 1]
    /\ pc = "idle" /\ warm = 0 /\ epoch = 0 /\ sched = 0
    /\ best_acc = 0 /\ accuracy = 0 /\ models = <<>>
    /\ executed = <<>> /\ accs = <<>> /\ best_before = 0 /\ calls = <<>>

NoneSeen == [gt_empty |-> FALSE, below_floor |-> FALSE, ncand |-> 0,
             ret |-> FALSE, before |-> FlZero]

LoopIdle ==
    /\ lpc = "idle" /\ ld = 0 /\ batch_idx = 0 /\ results = <<>>
    /\ fwd = 0 /\ used = 0 /\ seen = NoneSeen /\ successes = 0

EvalIdle ==
    /\ epc = "idle" /\ cands = <<>> /\ rects = <<>> /\ ret = FALSE

-----------------------------------------------------------------------------
(* SpecEval: one evaluation of a candidate list against the ground truth   *)
(* of one image, as validate performs it (ang_tar, then evaluation).       *)

EvalInit ==
    /\ RunIdle /\ LoopIdle
    /\ epc = "ready"
    /\ cands \in SeqsUpTo(Candidates, MaxCands)
    /\ rects \in SeqsUpTo(Rectangles, MaxRects)
    /\ ret = FALSE

evaluate_call ==
    /\ epc = "ready"
    /\ ret' = evaluate(cands, GroundTruth(Targets(rects)), angle_tolerance)
    /\ epc' = "done"
    /\ UNCHANGED <<cands, rects, runVars, loopVars>>

EvalNext == evaluate_call

SpecEval == EvalInit /\ [][EvalNext]_vars

Shift(cs, i, by) == [cs EXCEPT ![i].angle = @ + by]

\* C1: evaluation succeeds iff some candidate lies inside the mask of some
\* rectangle and its angle differs from that rectangle's target angle by at
\* most angle_tolerance modulo pi (some multiple of pi brings the difference
\* within the tolerance); replacing a candidate's angle theta by theta + pi
\* (or theta - pi) never changes the result.
C1_EvaluateIffMatch ==
    epc = "done" =>
        /\ ret <=> \E i \in 1..Len(cands), j \in 1..Len(rects) :
                      /\ cands[i].px \in rects[j].mask
                      /\ \E k \in -3..3 :
                            Abs(cands[i].angle - rects[j].theta + k * PI) <= angle_tolerance
        /\ \A i \in 1..Len(cands), by \in {PI, -PI} :
              evaluate(Shift(cands, i, by), GroundTruth(Targets(rects)), angle_tolerance) = ret

\* a success found by the second candidate only, and only modulo pi: no
\* candidate inside a mask is within the tolerance of the label angle itself
C1_Witness ==
    /\ epc = "done" /\ ret
    /\ Len(cands) = 2 /\ Len(rects) = 2
    /\ \A j \in 1..2 : ~ IsMatch(cands[1], GroundTruth(Targets(rects))[j], angle_tolerance)
    /\ \A i \in 1..2, j \in 1..2 :
          cands[i].px \in rects[j].mask
              => Abs(cands[i].angle - rects[j].theta) > angle_tolerance


-----------------------------------------------------------------------------
(* SpecLoops: one call of validate(net, device, val_data, saver, args) or  *)
(* of train(epoch, net, device, train_data, optimizer), one batch a step.  *)

Flat(v)    == [p \in Pixels |-> v]
Peak(p, v) == [q \in Pixels |-> IF q = p THEN v ELSE 0]

\* raw position maps the network can return
PosMaps == {Flat(0), Flat(MinConf - 1), Flat(MaxConf)}
             \cup {Peak(p, v) : p \in {<<1, 1>>, <<1, 3>>}, v \in {MinConf - 1, MinConf}}
             \cup {[Peak(<<1, 1>>, MinConf) EXCEPT ![<<1, 3>>] = MaxConf]}

\* an image of the loader: the network's raw output on it and its labels
Samples ==
    [pos   : PosMaps,
     code  : {Flat(Encode(0)), Flat(Encode(AngleSteps))},
     wid   : {Flat(1)},
     rects : SeqsUpTo(Rectangles, 1)]

\* validate: post_process_output(lossd['pred'][...]) decodes the prediction the
\* loss call returned; the network is not called again
decoder_input_second_pass(lossd) == [pred |-> lossd.fwd + 1, fwd |-> lossd.fwd + 1]
decoder_input(lossd) == [pred |-> lossd.pred, fwd |-> lossd.fwd]

\* validate: results['accuracy'] += ret / ld
add_accuracy_inverted(acc, r, n) == FlAdd(acc, FlDiv(IF r THEN 0 ELSE 1, n))
add_accuracy(acc, r, n) == FlAdd(acc, FlDiv(IF r THEN 1 ELSE 0, n))

\* if ln not in results['losses']: results['losses'][ln] = 0
\* results['losses'][ln] += l.item() / n
add_losses(d, losses, n) ==
    [ln \in (DOMAIN d) \cup (DOMAIN losses) |->
        Append(IF ln \in DOMAIN d THEN d[ln] ELSE <<>>, over(losses[ln], n))]

\* train: results['loss'] += loss.item()
train_add_overwrite(sum, x) == <<x>>
train_add(sum, x) == Append(sum, x)

LoopsInit ==
    /\ RunIdle /\ EvalIdle
    /\ lpc \in {"validate", "train"}
    /\ ld \in 0..MaxLd
    /\ batch_idx = 0
    /\ results = IF lpc = "validate"
                 THEN [accuracy |-> FlZero, graspable |-> <<>>, loss |-> <<>>, losses |-> <<>>]
                 ELSE [loss |-> <<>>, losses |-> <<>>]
    /\ fwd = 0 /\ used = 0 /\ seen = NoneSeen /\ successes = 0

validate_batch ==
    /\ lpc = "validate" /\ batch_idx < ld
    /\ \E sample \in Samples :
        LET lossd == focal_loss(batch_idx + 1, fwd)
            src   == decoder_input(lossd)
            out   == post_process_output(sample.pos, sample.code, sample.wid)
            a     == evaluation_args(out)
            gt    == GroundTruth(Targets(sample.rects))
            r     == evaluation(a, gt)
        IN  /\ batch_idx' = batch_idx + 1
            /\ fwd' = src.fwd
            /\ used' = src.pred
            /\ results' =
                 [graspable |-> Append(results.graspable,
                                       over(item("max_pos", batch_idx + 1), ld)),
                  accuracy  |-> add_accuracy(results.accuracy, r, ld),
                  loss      |-> Append(results.loss, over(lossd.loss, ld)),
                  losses    |-> add_losses(results.losses, lossd.losses, ld)]
            /\ seen' = [gt_empty    |-> sample.rects = <<>>,
                        below_floor |-> \A p \in Pixels : sample.pos[p] < MinConf,
                        ncand       |-> Len(extract(a[1], a[2], a[3], max_candidates)),
                        ret         |-> r,
                        before      |-> results.accuracy]
            /\ successes' = successes + (IF r THEN 1 ELSE 0)
    /\ UNCHANGED <<lpc, ld, runVars, evalVars>>

validate_return ==
    /\ lpc = "validate" /\ batch_idx = ld
    /\ lpc' = "validate_returned"
    /\ UNCHANGED <<ld, batch_idx, results, fwd, used, seen, successes, runVars, evalVars>>

train_batch ==
    /\ lpc = "train" /\ batch_idx < ld
    /\ LET lossd == focal_loss(batch_idx + 1, fwd)
       IN  /\ batch_idx' = batch_idx + 1
           /\ fwd' = lossd.fwd
           /\ used' = lossd.pred
           /\ results' =
                [loss   |-> train_add(results.loss, lossd.loss),
                 losses |-> [ln \in (DOMAIN results.losses) \cup (DOMAIN lossd.losses) |->
                               train_add(IF ln \in DOMAIN results.losses
                                         THEN results.losses[ln] ELSE <<>>,
                                         lossd.losses[ln])]]
    /\ UNCHANGED <<lpc, ld, seen, successes, runVars, evalVars>>

\* results['loss'] /= batch_idx raises ZeroDivisionError on an empty loader
train_return ==
    /\ lpc = "train" /\ batch_idx = ld
    /\ IF batch_idx = 0
       THEN /\ lpc' = "train_raised"
            /\ UNCHANGED results
       ELSE /\ lpc' = "train_returned"
            /\ results' =
                 [loss   |-> [sum |-> results.loss, div |-> batch_idx],
                  losses |-> [ln \in DOMAIN results.losses |->
                                [sum |-> results.losses[ln], div |-> batch_idx]]]
    /\ UNCHANGED <<ld, batch_idx, fwd, used, seen, successes, runVars, evalVars>>

LoopsNext == validate_batch \/ validate_return \/ train_batch \/ train_return

SpecLoops == LoopsInit /\ [][LoopsNext]_vars

InValidate == lpc \in {"validate", "validate_returned"}
InTrain    == lpc \in {"train", "train_returned", "train_raised"}

\* C2: after validate has gone through ld >= 1 single-image batches,
\* results['accuracy'] is (number of successful images) / ld, and lies in [0, 1].
C2_AccuracyIsMean ==
    (lpc = "validate_returned" /\ ld >= 1) =>
        /\ results.accuracy = FlDiv(successes, ld)
        /\ FlLeq(FlZero, results.accuracy) /\ FlLeq(results.accuracy, FlOne)

\* C3: an image whose ground truth has no rectangle evaluates to failure, adds
\* nothing to the accuracy, and validate goes on (it is still in its loop, or
\* has returned after the last image): nothing was raised.
C3_EmptyGroundTruthFails ==
    (InValidate /\ batch_idx >= 1 /\ seen.gt_empty) =>
        /\ ~ seen.ret
        /\ results.accuracy = seen.before
        /\ (batch_idx < ld => lpc = "validate")

C3_Witness ==
    /\ lpc = "validate" /\ batch_idx >= 2 /\ batch_idx < ld
    /\ seen.gt_empty /\ ~ seen.below_floor /\ successes >= 1

\* C4: a position map entirely below the minimum-confidence floor gives no
\* candidate, the evaluation fails whatever the ground truth, and validate
\* records a zero contribution to the accuracy and goes on.
C4_NoCandidateFails ==
    (InValidate /\ batch_idx >= 1 /\ seen.below_floor) =>
        /\ seen.ncand = 0
        /\ ~ seen.ret
        /\ results.accuracy = seen.before
        /\ (batch_idx < ld => lpc = "validate")

C4_Witness ==
    /\ lpc = "validate" /\ batch_idx >= 2 /\ batch_idx < ld
    /\ seen.below_floor /\ ~ seen.gt_empty /\ successes >= 1

\* C5: every training step and every validation step runs the network forward
\* pass exactly once (the passes executed equal the batches consumed), and the
\* prediction validate decodes and evaluates is the output of that pass.
C5_OneForwardPerStep ==
    (InValidate \/ InTrain) =>
        /\ fwd = batch_idx
        /\ used = batch_idx

C5_Witness == lpc = "validate_returned" /\ ld >= 2 /\ fwd = ld

\* C7: train returns, for n >= 1 batches, the sum of the n per-batch total
\* losses divided by n, and for every loss term the sum of that term over the
\* n batches divided by n: every batch once, in the sums and in the divisor.
C7_TrainReturnsAverages ==
    lpc = "train_returned" =>
        /\ ld >= 1
        /\ results.loss = [sum |-> [i \in 1..ld |-> item("loss", i)], div |-> ld]
        /\ DOMAIN results.losses = LossNames
        /\ \A ln \in LossNames :
              results.losses[ln] =
                  [sum |-> [i \in 1..ld |-> item(ln, i)], div |-> ld]

C7_Witness == lpc = "train_returned" /\ ld >= 3


-----------------------------------------------------------------------------
(* Saver (utils.saver): the model files of the run's directory.  A file is *)
(* named after the epoch, the accuracy and the trailing underscore.        *)

model_name(e, acc, underscore) == [epoch |-> e, acc |-> acc, underscore |-> underscore]

save_model(files, name) == Append(files, name)

\* "delete the surplus old models": keep the newest num files
remove_model(files, num) ==
    IF Len(files) > num THEN SubSeq(files, Len(files) - num + 1, Len(files)) ELSE files

-----------------------------------------------------------------------------
(* Spec: run().  train() and validate() are single steps here; the test    *)
(* accuracy validate returns is one of the ordered levels 0..MaxAcc        *)
(* (level 0 is 0.0).  The loaders are not empty.                           *)

\* start_epoch = args.start_epoch if args.goon_train else 0
start_epoch == IF args.goon_train THEN args.start_epoch ELSE 0

\* len(range(n))
RangeLen(n) == IF n < 0 THEN 0 ELSE n

\* for _ in range(start_epoch): scheduler.step()
warmup_steps_none == RangeLen(0)
warmup_steps == RangeLen(start_epoch)

\* range(args.epochs)[start_epoch:] is range(first_epoch, RangeLen(epochs))
first_epoch ==
    LET n == RangeLen(args.epochs)
    IN  IF start_epoch < 0
        THEN (IF n + start_epoch < 0 THEN 0 ELSE n + start_epoch)
        ELSE (IF start_epoch > n THEN n ELSE start_epoch)

\* the Saver calls of the checkpoint step, as the history records them
save_call(underscore) ==
    <<"save_model", IF underscore THEN "epoch_acc_.pth" ELSE "epoch_acc.pth">>
remove_call(num) == <<"remove_model", num>>

\* if accuracy >= best_acc
is_best_strict(acc, best) == acc > best
is_best(acc, best) == acc >= best

RunInit ==
    /\ LoopIdle /\ EvalIdle
    /\ args \in [goon_train : BOOLEAN, start_epoch : -1..(MaxEpochs + 1),
                 epochs : 0..MaxEpochs, max_models : 1..MaxModels]
    /\ pc = "warmup" /\ warm = 0 /\ epoch = 0 /\ sched = 0
    /\ best_acc = 0 /\ accuracy = 0 /\ models = <<>>
    /\ executed = <<>> /\ accs = <<>> /\ best_before = 0 /\ calls = <<>>

scheduler_warmup ==
    /\ pc = "warmup" /\ warm < warmup_steps
    /\ warm' = warm + 1
    /\ sched' = sched + 1
    /\ UNCHANGED <<args, pc, epoch, best_acc, accuracy, models, executed, accs,
                   best_before, calls, loopVars, evalVars>>

enter_epoch_loop ==
    /\ pc = "warmup" /\ warm >= warmup_steps
    /\ epoch' = first_epoch
    /\ pc' = "epoch_loop"
    /\ UNCHANGED <<args, warm, sched, best_acc, accuracy, models, executed, accs,
                   best_before, calls, loopVars, evalVars>>

begin_epoch ==
    /\ pc = "epoch_loop" /\ epoch < RangeLen(args.epochs)
    /\ executed' = Append(executed, epoch)
    /\ pc' = "train"
    /\ UNCHANGED <<args, warm, epoch, sched, best_acc, accuracy, models, accs,
                   best_before, calls, loopVars, evalVars>>

\* train_results = train(...); scheduler.step()
train_epoch ==
    /\ pc = "train"
    /\ sched' = sched + 1
    /\ pc' = "validate"
    /\ UNCHANGED <<args, warm, epoch, best_acc, accuracy, models, executed, accs,
                   best_before, calls, loopVars, evalVars>>

\* test_results = validate(val_data); train_val_results = validate(train_val_data)
validate_epoch ==
    /\ pc = "validate"
    /\ \E a \in 0..MaxAcc : accuracy' = a
    /\ pc' = "checkpoint"
    /\ UNCHANGED <<args, warm, epoch, sched, best_acc, models, executed, accs,
                   best_before, calls, loopVars, evalVars>>

checkpoint ==
    /\ pc = "checkpoint"
    /\ IF is_best(accuracy, best_acc)
       THEN /\ models' = save_model(models, model_name(epoch, accuracy, FALSE))
            /\ best_acc' = accuracy
            /\ calls' = <<save_call(FALSE)>>
       ELSE /\ models' = remove_model(save_model(models, model_name(epoch, accuracy, TRUE)),
                                      args.max_models)
            /\ best_acc' = best_acc
            /\ calls' = <<save_call(TRUE), remove_call(args.max_models)>>
    /\ best_before' = best_acc
    /\ accs' = Append(accs, accuracy)
    /\ epoch' = epoch + 1
    /\ pc' = "epoch_loop"
    /\ UNCHANGED <<args, warm, sched, accuracy, executed, loopVars, evalVars>>

\* the epoch loop is exhausted: tb.close()
finish ==
    /\ pc = "epoch_loop" /\ epoch >= RangeLen(args.epochs)
    /\ pc' = "done"
    /\ UNCHANGED <<args, warm, epoch, sched, best_acc, accuracy, models, executed, accs,
                   best_before, calls, loopVars, evalVars>>

Next ==
    \/ scheduler_warmup
    \/ enter_epoch_loop
    \/ begin_epoch
    \/ train_epoch
    \/ validate_epoch
    \/ checkpoint
    \/ finish

Spec == RunInit /\ [][Next]_vars

RECURSIVE MaxOf(_, _)
MaxOf(sq, floor) ==
    IF sq = <<>> THEN floor
    ELSE LET m == MaxOf(Tail(sq), floor) IN IF Head(sq) > m THEN Head(sq) ELSE m

\* C6: after the checkpoint step of every epoch, at most max_models model
\* files are kept on disk.
C6_AtMostMaxModels ==
    pc \in {"epoch_loop", "done"} => Len(models) <= args.max_models

\* C8: after the checkpoint step of each epoch best_acc is the maximum of 0.0
\* and the test accuracies of all epochs so far, and is not below its value
\* before the step; the step called save_model exactly once, without the
\* trailing underscore and without remove_model exactly when the epoch's
\* accuracy was >= the best_acc held before, and with the underscore, followed
\* by one remove_model, otherwise.
C8_BestAccAndSaverCalls ==
    (pc \in {"epoch_loop", "done"} /\ accs # <<>>) =>
        /\ best_acc = MaxOf(accs, 0)
        /\ best_acc >= best_before
        /\ calls = IF accs[Len(accs)] >= best_before
                   THEN <<<<"save_model", "epoch_acc.pth">>>>
                   ELSE <<<<"save_model", "epoch_acc_.pth">>,
                          <<"remove_model", args.max_models>>>>

C8_Witness ==
    /\ pc = "done" /\ Len(accs) = 3
    /\ accs[1] > 0 /\ accs[2] < accs[1] /\ accs[3] = accs[1]
    /\ Len(calls) = 1

\* C9: with start_epoch >= 0 a resumed run executes exactly the epochs
\* start_epoch, ..., epochs - 1, in increasing order and once each (none when
\* start_epoch >= epochs), and when the body of epoch e begins the scheduler
\* has been stepped exactly e times, as in a run started from epoch 0.
C9_ResumeKeepsSchedule ==
    (args.goon_train => args.start_epoch >= 0) =>
        /\ executed = [i \in 1..Len(executed) |-> start_epoch + i - 1]
        /\ \A i \in 1..Len(executed) : executed[i] <= args.epochs - 1
        /\ pc = "train" => (sched = epoch /\ executed[Len(executed)] = epoch)
        /\ pc = "done" =>
              Len(executed) = (IF args.epochs > start_epoch
                               THEN args.epochs - start_epoch ELSE 0)

C9_Witness ==
    /\ pc = "done" /\ args.goon_train
    /\ args.start_epoch >= 1 /\ Len(executed) >= 2

=============================================================================
